---- MODULE Spec2Model ----
(***************************************************************************)
(* fenics_adjoint: the tape-annotated project() of projection.py and the   *)
(* backend compatibility table of types/compat.py.                         *)
(*                                                                         *)
(* Spec        the calls of project() against the working tape and the     *)
(*             global stop-annotating state, with the native backend       *)
(*             projection running between the entry and the exit of the    *)
(*             `with stop_annotating()` block.                             *)
(* CompatSpec  the functions of compat.py applied to bounded inputs, for   *)
(*             each of the two backends.                                   *)
(***************************************************************************)
EXTENDS Integers, Sequences, FiniteSets, TLC

\* Bounds of the model.
MaxCalls == 2
MaxBlocks == 3
MaxDepth == 2
MaxNativeOps == 2
MaxPathLen == 2
MaxIndex == 1
MaxListLen == 2

VARIABLES
    backendName,   \* backend.__name__, fixed when the module is loaded
    tape,          \* the working tape: the sequence of recorded blocks (ids into blocks)
    blocks,        \* every block object constructed so far, by id
    wrappers,      \* every overloaded object created by project, by id
    stopDepth,     \* pyadjoint.tape._stop_annotating: > 0 means recording is suspended
    calls,         \* number of project calls made; names the backend's raw outputs
    pc,            \* where the running project call is
    frame,         \* locals of the running (or last) project call
    pre,           \* tape and recording state immediately before the call
    ret,           \* how the last project call ended
    compat         \* last call of a compat.py function: operation, arguments, result

vars == <<backendName, tape, blocks, wrappers, stopDepth, calls, pc, frame, pre, ret, compat>>

projectVars == <<tape, blocks, wrappers, stopDepth, calls, pc, frame, pre, ret>>

Backends == {"firedrake", "dolfin"}

(***************************************************************************)
(* The tape framework consumed by project().                               *)
(***************************************************************************)

\* annotate_tape(kwargs): the value of the annotate option (default True),
\* overridden by a suspended global recording state.
AnnotateTape(annotateKw, depth) ==
    IF depth > 0 THEN FALSE
    ELSE IF annotateKw = "absent" THEN TRUE ELSE annotateKw = "True"

\* stop_annotating().__enter__ and __exit__.
StopAnnotatingEnter(depth) == depth + 1

StopAnnotatingExit(depth) == depth - 1

\* create_overloaded_object(output): a new wrapper around the raw value.
CreateOverloadedObject(ws, raw) == Append(ws, [raw |-> raw])

\* The block variable of wrapper w is identified with w.
BlockVariable(w) == w

\* Tape.add_block(block).
AddBlockToTape(t, b) == Append(t, b)

\* Block.add_output(block_variable).
BlockAddOutput(blk, bv) == [blk EXCEPT !.outputs = Append(@, bv)]

\* The options SolveBlock.pop_kwargs removes from kwargs and hands to the block.
SolveBlockKwargs == {"solver_parameters"}

PopKwargs(opts) == opts \cap SolveBlockKwargs

\* The constructor ProjectBlock(v, V, output, bcs) with the popped options.
ProjectBlock(v, V, output, bcs, sbKwargs) ==
    [type |-> "ProjectBlock", args |-> <<v, V>>, func |-> output,
     bcs |-> bcs, kwargs |-> sbKwargs, outputs |-> <<>>]

\* The block of any other overloaded operation (its outputs are not tracked).
GenericBlock ==
    [type |-> "Block", args |-> <<>>, func |-> 0,
     bcs |-> <<>>, kwargs |-> {}, outputs |-> <<>>]

(***************************************************************************)
(* Inputs of project().                                                    *)
(***************************************************************************)

AnnotateOptions == {"absent", "True", "False"}

BcsOptions == {"absent", "given"}

OtherOptions == {"solver_parameters", "mesh"}

Kwargs == [annotate : AnnotateOptions, bcs : BcsOptions, opts : SUBSET OtherOptions]

\* kwargs.pop("bcs", []).
PopBcs(kw) == IF kw.bcs = "absent" THEN <<>> ELSE <<"bc">>

BackendErrors == {"RuntimeError", "TypeError"}

NoFrame ==
    [args |-> <<"v", "V">>, annotateArg |-> "absent",
     kwargs |-> [annotate |-> "absent", bcs |-> "absent", opts |-> {}],
     nativeKwargs |-> [annotate |-> "absent", bcs |-> "absent", opts |-> {}],
     annotate |-> FALSE, nativeOps |-> 0, raw |-> 0, output |-> 0, block |-> 0,
     nativeError |-> "none"]

NoRet == [status |-> "none", value |-> 0, error |-> "none"]

NoCompat == [op |-> "none"]

NoPre == [tape |-> <<>>, depth |-> 0, nblocks |-> 0, nwrappers |-> 0]

Idle == pc \in {"idle", "exited"}

\* The caller runs on after a call of project: the call's locals are gone.
CallerContinues ==
    /\ pc' = "idle"
    /\ frame' = NoFrame
    /\ pre' = NoPre
    /\ ret' = NoRet

(***************************************************************************)
(* The caller's own operations between calls of project().                 *)
(***************************************************************************)

\* An overloaded operation other than project: records one block when
\* annotate_tape says so.
OverloadedOp(annotateKw) ==
    IF AnnotateTape(annotateKw, stopDepth)
    THEN /\ blocks' = Append(blocks, GenericBlock)
         /\ tape' = AddBlockToTape(tape, Len(blocks) + 1)
    ELSE UNCHANGED <<blocks, tape>>

UserOp ==
    /\ Idle
    /\ Len(blocks) < MaxBlocks
    /\ \E kw \in {"absent", "False"} : OverloadedOp(kw)
    /\ CallerContinues
    /\ UNCHANGED <<backendName, wrappers, stopDepth, calls, compat>>

\* The caller enters or leaves a `with stop_annotating()` block of its own.
UserStopAnnotating ==
    /\ Idle
    /\ stopDepth < MaxDepth
    /\ stopDepth' = StopAnnotatingEnter(stopDepth)
    /\ CallerContinues
    /\ UNCHANGED <<backendName, tape, blocks, wrappers, calls, compat>>

UserResumeAnnotating ==
    /\ Idle
    /\ stopDepth > 0
    /\ stopDepth' = StopAnnotatingExit(stopDepth)
    /\ CallerContinues
    /\ UNCHANGED <<backendName, tape, blocks, wrappers, calls, compat>>

(***************************************************************************)
(* The body of project, projection.py lines 16-31.                         *)
(***************************************************************************)

\* Variant of the entry that does not suspend recording around the native call.
ProjectCallNoSuspend(kw) ==
    /\ Idle
    /\ calls < MaxCalls
    /\ Len(blocks) < MaxBlocks
    /\ calls' = calls + 1
    /\ pre' = [tape |-> tape, depth |-> stopDepth,
               nblocks |-> Len(blocks), nwrappers |-> Len(wrappers)]
    /\ frame' = [NoFrame EXCEPT
                    !.annotateArg = kw.annotate,
                    !.annotate = AnnotateTape(kw.annotate, stopDepth),
                    !.kwargs = [kw EXCEPT !.annotate = "absent"],
                    !.nativeKwargs = [kw EXCEPT !.annotate = "absent"]]
    /\ stopDepth' = stopDepth
    /\ ret' = NoRet
    /\ pc' = "native"
    /\ UNCHANGED <<backendName, tape, blocks, wrappers, compat>>

\* Lines 16-17: annotate = annotate_tape(kwargs) pops the annotate option;
\* the with block suspends recording and the native projection starts.
ProjectCall(kw) ==
    /\ Idle
    /\ calls < MaxCalls
    /\ Len(blocks) < MaxBlocks
    /\ calls' = calls + 1
    /\ pre' = [tape |-> tape, depth |-> stopDepth,
               nblocks |-> Len(blocks), nwrappers |-> Len(wrappers)]
    /\ frame' = [NoFrame EXCEPT
                    !.annotateArg = kw.annotate,
                    !.annotate = AnnotateTape(kw.annotate, stopDepth),
                    !.kwargs = [kw EXCEPT !.annotate = "absent"],
                    !.nativeKwargs = [kw EXCEPT !.annotate = "absent"]]
    /\ stopDepth' = StopAnnotatingEnter(stopDepth)
    /\ ret' = NoRet
    /\ pc' = "native"
    /\ UNCHANGED <<backendName, tape, blocks, wrappers, compat>>

\* Line 18, inside backend.project: the native projection runs an operation
\* that is itself overloaded (a solve, an assign) and would record a block.
NativeOp ==
    /\ pc = "native"
    /\ frame.nativeOps < MaxNativeOps
    /\ OverloadedOp("absent")
    /\ frame' = [frame EXCEPT !.nativeOps = @ + 1]
    /\ UNCHANGED <<backendName, wrappers, stopDepth, calls, pc, pre, ret, compat>>

\* Lines 18-19: backend.project returns, the with block exits, and the raw
\* output is wrapped.
NativeReturn ==
    /\ pc = "native"
    /\ stopDepth' = StopAnnotatingExit(stopDepth)
    /\ wrappers' = CreateOverloadedObject(wrappers, calls)
    /\ frame' = [frame EXCEPT !.raw = calls, !.output = Len(wrappers) + 1]
    /\ pc' = "wrapped"
    /\ UNCHANGED <<backendName, tape, blocks, calls, pre, ret, compat>>

\* Variant of the error exit that leaves recording suspended.
NativeRaiseNoRestore(e) ==
    /\ pc = "native"
    /\ stopDepth' = stopDepth
    /\ frame' = [frame EXCEPT !.nativeError = e]
    /\ ret' = [status |-> "raised", value |-> 0, error |-> e]
    /\ pc' = "exited"
    /\ UNCHANGED <<backendName, tape, blocks, wrappers, calls, pre, compat>>

\* Variant of the error exit that still records a block for the failed call.
NativeRaiseThenRecord(e) ==
    /\ pc = "native"
    /\ stopDepth' = StopAnnotatingExit(stopDepth)
    /\ frame' = [frame EXCEPT !.nativeError = e]
    /\ ret' = [status |-> "raised", value |-> 0, error |-> e]
    /\ blocks' = IF frame.annotate
                 THEN Append(blocks, ProjectBlock("v", "V", 0, <<>>, {}))
                 ELSE blocks
    /\ tape' = IF frame.annotate THEN AddBlockToTape(tape, Len(blocks) + 1) ELSE tape
    /\ pc' = "exited"
    /\ UNCHANGED <<backendName, wrappers, calls, pre, compat>>

\* Line 18: backend.project raises; the with block exits and the error
\* leaves project.
NativeRaise(e) ==
    /\ pc = "native"
    /\ stopDepth' = StopAnnotatingExit(stopDepth)
    /\ frame' = [frame EXCEPT !.nativeError = e]
    /\ ret' = [status |-> "raised", value |-> 0, error |-> e]
    /\ pc' = "exited"
    /\ UNCHANGED <<backendName, tape, blocks, wrappers, calls, pre, compat>>

\* Variant of the recording step that ignores the annotate flag.
AddBlockUnconditional ==
    /\ pc = "wrapped"
    /\ LET bcs == PopBcs(frame.kwargs)
           sbKwargs == PopKwargs(frame.kwargs.opts)
           block == ProjectBlock(frame.args[1], frame.args[2], frame.output, bcs, sbKwargs)
       IN /\ blocks' = Append(blocks, block)
          /\ tape' = AddBlockToTape(tape, Len(blocks) + 1)
          /\ frame' = [frame EXCEPT
                          !.block = Len(blocks) + 1,
                          !.kwargs = [@ EXCEPT !.bcs = "absent", !.opts = @ \ sbKwargs]]
    /\ pc' = "added"
    /\ UNCHANGED <<backendName, wrappers, stopDepth, calls, pre, ret, compat>>

\* Lines 21-27: with annotate true, pop bcs and the solve block's options,
\* construct the ProjectBlock and add it to the working tape.
AddBlock ==
    /\ pc = "wrapped"
    /\ frame.annotate
    /\ LET bcs == PopBcs(frame.kwargs)
           sbKwargs == PopKwargs(frame.kwargs.opts)
           block == ProjectBlock(frame.args[1], frame.args[2], frame.output, bcs, sbKwargs)
       IN /\ blocks' = Append(blocks, block)
          /\ tape' = AddBlockToTape(tape, Len(blocks) + 1)
          /\ frame' = [frame EXCEPT
                          !.block = Len(blocks) + 1,
                          !.kwargs = [@ EXCEPT !.bcs = "absent", !.opts = @ \ sbKwargs]]
    /\ pc' = "added"
    /\ UNCHANGED <<backendName, wrappers, stopDepth, calls, pre, ret, compat>>

\* Lines 29-31: register the wrapper's block variable as the block's output
\* and return the wrapper.
AddOutput ==
    /\ pc = "added"
    /\ blocks' = [blocks EXCEPT ![frame.block] = BlockAddOutput(@, BlockVariable(frame.output))]
    /\ ret' = [status |-> "returned", value |-> frame.output, error |-> "none"]
    /\ pc' = "exited"
    /\ UNCHANGED <<backendName, tape, wrappers, stopDepth, calls, frame, pre, compat>>

\* Lines 21 and 31: with annotate false, return the wrapper.
ReturnUnannotated ==
    /\ pc = "wrapped"
    /\ ~frame.annotate
    /\ ret' = [status |-> "returned", value |-> frame.output, error |-> "none"]
    /\ pc' = "exited"
    /\ UNCHANGED <<backendName, tape, blocks, wrappers, stopDepth, calls, frame, pre, compat>>

Init ==
    /\ backendName \in Backends
    /\ tape = <<>>
    /\ blocks = <<>>
    /\ wrappers = <<>>
    /\ stopDepth = 0
    /\ calls = 0
    /\ pc = "idle"
    /\ frame = NoFrame
    /\ pre = NoPre
    /\ ret = NoRet
    /\ compat = NoCompat

Next ==
    \/ UserOp
    \/ UserStopAnnotating
    \/ UserResumeAnnotating
    \/ \E kw \in Kwargs : ProjectCall(kw)
    \/ NativeOp
    \/ NativeReturn
    \/ \E e \in BackendErrors : NativeRaise(e)
    \/ AddBlock
    \/ AddOutput
    \/ ReturnUnannotated

Spec == Init /\ [][Next]_vars

(***************************************************************************)
(* types/compat.py: extract_subfunction.                                   *)
(*                                                                         *)
(* A space of the function-space tree is named by its component path from  *)
(* the root; the sub-function u.sub(i1)...sub(ik) of the field u is named  *)
(* by the sequence of indices applied, so u itself is the empty sequence.  *)
(***************************************************************************)

\* The functions of compat.py keep no state of their own: a call's outcome
\* depends on the backend and the arguments only, so each behaviour makes one
\* call from the freshly loaded module.
NoCallYet == compat.op = "none"

Paths == UNION {[1..n -> 0..MaxIndex] : n \in 0..MaxPathLen}

\* r.sub(i).
Sub(r, i) == Append(r, i)

\* firedrake: V.index is None (here the empty sequence) on a root space and
\* the component number on a sub-space; V.parent is the enclosing space.
SpaceIndex(V) == IF V = <<>> THEN <<>> ELSE <<V[Len(V)]>>

SpaceParent(V) == SubSeq(V, 1, Len(V) - 1)

\* Python truth of V.index: None and 0 are false.
IndexIsTrue(ix) == ix # <<>> /\ ix[1] # 0

\* dolfin: V.component() is the array of component numbers from the root.
SpaceComponent(V) == V

RECURSIVE ExtractSubfunctionFiredrake(_, _)
ExtractSubfunctionFiredrake(r, V) ==
    IF IndexIsTrue(SpaceIndex(V))
    THEN ExtractSubfunctionFiredrake(Sub(r, SpaceIndex(V)[1]), SpaceParent(V))
    ELSE r

RECURSIVE SubEach(_, _)
SubEach(r, component) ==
    IF component = <<>> THEN r
    ELSE SubEach(Sub(r, Head(component)), Tail(component))

ExtractSubfunctionDolfin(u, V) == SubEach(u, SpaceComponent(V))

ExtractSubfunction(u, V) ==
    IF backendName = "firedrake"
    THEN ExtractSubfunctionFiredrake(u, V)
    ELSE ExtractSubfunctionDolfin(u, V)

CallExtractSubfunction ==
    /\ NoCallYet
    /\ \E V \in Paths :
          compat' = [op |-> "extract_subfunction", arg |-> [V |-> V],
                     res |-> ExtractSubfunction(<<>>, V)]
    /\ UNCHANGED <<backendName, projectVars>>

(***************************************************************************)
(* types/compat.py: create_bc.                                             *)
(***************************************************************************)

NewValues == {"None", "0", "g1"}

HomogenizeValues == {"None", "True", "False"}

InputBcs ==
    [V : {"W", "W.sub(0)"}, value : {"g0"}, sub_domain : {"left", "right"},
     method : {"topological"}]

\* backend.DirichletBC(V, value, sub_domain, method).
DirichletBC(V, value, sub_domain, method) ==
    [V |-> V, value |-> value, sub_domain |-> sub_domain, method |-> method]

\* dolfin: bc.domain_args.
DomainArgs(bc) == <<bc.sub_domain, bc.method>>

\* dolfin: bc.homogenize().
Homogenized(bc) == [bc EXCEPT !.value = "0"]

\* The outcome of a call: how it ended, the object returned (1 is the input
\* bc, 2 the newly constructed one), the boundary conditions that exist
\* afterwards, and the attribute reads of bc and backend calls made, in order.
BcValueError(bc) ==
    [status |-> "ValueError", ret |-> 0, heap |-> <<bc>>, log |-> <<>>]

\* Variant whose second check tests the truth of value and homogenize
\* instead of comparing them with None.
CreateBcFiredrakeTruthy(bc, value, homogenize) ==
    IF value = "None" /\ homogenize = "None" THEN BcValueError(bc)
    ELSE IF value \notin {"None", "0"} /\ homogenize = "True" THEN BcValueError(bc)
    ELSE LET v == IF homogenize = "True" THEN "0" ELSE value
         IN [status |-> "ok", ret |-> 2,
             heap |-> <<bc, DirichletBC(bc.V, v, bc.sub_domain, bc.method)>>,
             log |-> <<"bc.function_space", "bc.sub_domain", "bc.method", "DirichletBC">>]

\* firedrake branch, lines 23-41.
CreateBcFiredrake(bc, value, homogenize) ==
    IF value = "None" /\ homogenize = "None" THEN BcValueError(bc)
    ELSE IF value # "None" /\ homogenize # "None" THEN BcValueError(bc)
    ELSE LET v == IF homogenize = "True" THEN "0" ELSE value
         IN [status |-> "ok", ret |-> 2,
             heap |-> <<bc, DirichletBC(bc.V, v, bc.sub_domain, bc.method)>>,
             log |-> <<"bc.function_space", "bc.sub_domain", "bc.method", "DirichletBC">>]

\* dolfin branch, lines 135-155.
CreateBcDolfin(bc, value, homogenize) ==
    IF value = "None" /\ homogenize = "None" THEN BcValueError(bc)
    ELSE IF value # "None" /\ homogenize # "None" THEN BcValueError(bc)
    ELSE IF homogenize = "True"
    THEN [status |-> "ok", ret |-> 2,
          heap |-> <<bc, Homogenized(bc)>>,
          log |-> <<"DirichletBC", "homogenize">>]
    ELSE [status |-> "ok", ret |-> 2,
          heap |-> <<bc, DirichletBC(bc.V, value, DomainArgs(bc)[1], DomainArgs(bc)[2])>>,
          log |-> <<"bc.function_space", "bc.domain_args", "DirichletBC">>]

CreateBc(bc, value, homogenize) ==
    IF backendName = "firedrake"
    THEN CreateBcFiredrake(bc, value, homogenize)
    ELSE CreateBcDolfin(bc, value, homogenize)

CallCreateBc ==
    /\ NoCallYet
    /\ \E bc \in InputBcs, value \in NewValues, homogenize \in HomogenizeValues :
          compat' = [op |-> "create_bc",
                     arg |-> [bc |-> bc, value |-> value, homogenize |-> homogenize],
                     res |-> CreateBc(bc, value, homogenize)]
    /\ UNCHANGED <<backendName, projectVars>>

(***************************************************************************)
(* types/compat.py: assemble_adjoint_value.                                *)
(***************************************************************************)

FormRanks == {0, 1, 2}

\* backend.assemble(form): a number for a 0-form, a matrix for a 2-form, and
\* for a 1-form a Function in firedrake and a Vector in dolfin.
BackendAssemble(name, rank) ==
    [kind |-> IF rank = 0 THEN "float"
              ELSE IF rank = 2 THEN "Matrix"
              ELSE IF name = "firedrake" THEN "Function" ELSE "Vector",
     form |-> rank]

\* result.vector() of an assembled Function.
AssembledVector(result) == [result EXCEPT !.kind = "Vector"]

\* Variant that returns the backend's result without the conversion.
AssembleAdjointValueUnconverted(rank) ==
    BackendAssemble("firedrake", rank)

\* firedrake branch, lines 104-111.
AssembleAdjointValueFiredrake(rank) ==
    LET result == BackendAssemble("firedrake", rank)
    IN IF result.kind = "Function" THEN AssembledVector(result) ELSE result

\* dolfin branch, line 204: the backend's assemble itself.
AssembleAdjointValueDolfin(rank) == BackendAssemble("dolfin", rank)

AssembleAdjointValue(rank) ==
    IF backendName = "firedrake"
    THEN AssembleAdjointValueFiredrake(rank)
    ELSE AssembleAdjointValueDolfin(rank)

CallAssembleAdjointValue ==
    /\ NoCallYet
    /\ \E rank \in FormRanks :
          compat' = [op |-> "assemble_adjoint_value", arg |-> [rank |-> rank],
                     native |-> BackendAssemble(backendName, rank),
                     res |-> AssembleAdjointValue(rank)]
    /\ UNCHANGED <<backendName, projectVars>>

(***************************************************************************)
(* types/compat.py: gather.                                                *)
(***************************************************************************)

Vector(d) == [kind |-> "Vector", data |-> d, items |-> <<>>]

Function(d) == [kind |-> "Function", data |-> d, items |-> <<>>]

Array(d) == [kind |-> "array", data |-> d, items |-> <<>>]

PyList(xs) == [kind |-> "list", data |-> <<>>, items |-> xs]

PyFloat(x) == [kind |-> "float", data |-> <<x>>, items |-> <<>>]

\* What a call that raised AttributeError leaves its caller with.
AttributeError == [kind |-> "AttributeError", data |-> <<>>, items |-> <<>>]

\* u.vector() of a Function.
FunctionVector(u) == Vector(u.data)

\* arr.array().tolist(): the Python list of the values.
ToList(d) == PyList([i \in 1..Len(d) |-> PyFloat(d[i])])

SeqsUpTo(S, n) == UNION {[1..k -> S] : k \in 0..n}

GatherAtoms == {Vector(<<1, 2>>), Function(<<3>>), Array(<<1, 2>>)}

GatherLists == {PyList(xs) : xs \in SeqsUpTo(GatherAtoms, MaxListLen)}

GatherInputs ==
    GatherAtoms \cup {PyList(xs) : xs \in SeqsUpTo(GatherAtoms \cup GatherLists, MaxListLen)}

\* firedrake: vec.gather(); of the objects here only a Vector has the method.
GatherFiredrake(vec) ==
    IF vec.kind = "Vector" THEN Array(vec.data) ELSE AttributeError

\* dolfin: doubleArrayApi says whether vec.gather(arr, indices) is accepted
\* (the try branch) or raises TypeError (the except branch).
RECURSIVE GatherDolfin(_, _)
GatherDolfin(vec0, doubleArrayApi) ==
    LET vec == IF vec0.kind = "Function" THEN FunctionVector(vec0) ELSE vec0
    IN IF vec.kind = "Vector"
       THEN IF doubleArrayApi THEN ToList(vec.data) ELSE Array(vec.data)
       ELSE IF vec.kind = "list"
       THEN PyList([i \in 1..Len(vec.items) |-> GatherDolfin(vec.items[i], doubleArrayApi)])
       ELSE vec

Gather(vec, doubleArrayApi) ==
    IF backendName = "firedrake"
    THEN GatherFiredrake(vec)
    ELSE GatherDolfin(vec, doubleArrayApi)

CallGather ==
    /\ NoCallYet
    /\ \E vec \in GatherInputs, doubleArrayApi \in BOOLEAN :
          compat' = [op |-> "gather",
                     arg |-> [vec |-> vec, doubleArrayApi |-> doubleArrayApi],
                     res |-> Gather(vec, doubleArrayApi)]
    /\ UNCHANGED <<backendName, projectVars>>

CompatNext ==
    \/ CallExtractSubfunction
    \/ CallCreateBc
    \/ CallAssembleAdjointValue
    \/ CallGather

CompatSpec == Init /\ [][CompatNext]_vars

(***************************************************************************)
(* Properties of project().                                                *)
(***************************************************************************)

InCall == pc \in {"native", "wrapped", "added", "exited"}

NormalExit == pc = "exited" /\ frame.nativeError = "none"

\* C1: a call project(..., annotate=False) leaves the tape's sequence of
\* blocks as it was before the call, whatever the tape and the global
\* recording state were, at every point of the call and after it; no block
\* is constructed; and when the native projection returns, the call returns
\* the wrapper of the native output.
C1_AnnotateFalseLeavesTape ==
    (InCall /\ frame.annotateArg = "False") =>
        /\ tape = pre.tape
        /\ Len(blocks) = pre.nblocks
        /\ NormalExit =>
              /\ ret.status = "returned"
              /\ ret.value = Len(wrappers)
              /\ Len(wrappers) = pre.nwrappers + 1
              /\ wrappers[ret.value].raw = calls

C1_Witness ==
    /\ NormalExit
    /\ frame.annotateArg = "False"
    /\ frame.nativeOps > 0
    /\ pre.depth = 0
    /\ Len(pre.tape) > 0
    /\ ret.status = "returned"

C3_RecordingStateRestored ==
    /\ pc = "native" =>
          /\ stopDepth = pre.depth + 1
          /\ ~AnnotateTape("True", stopDepth)
    /\ pc \in {"wrapped", "added", "exited"} => stopDepth = pre.depth

C3_Witness ==
    /\ pc = "exited"
    /\ ret.status = "raised"
    /\ pre.depth = 0
    /\ stopDepth = 0
    /\ frame.nativeOps > 0

\* C10: when the native projection raises, whatever the annotate option,
\* project ends with that same error, creates no wrapper, constructs no
\* block, and leaves the tape's sequence of blocks as it was before the call.
C10_NativeErrorPropagates ==
    (pc = "exited" /\ frame.nativeError # "none") =>
        /\ ret = [status |-> "raised", value |-> 0, error |-> frame.nativeError]
        /\ frame.output = 0
        /\ frame.block = 0
        /\ Len(wrappers) = pre.nwrappers
        /\ Len(blocks) = pre.nblocks
        /\ tape = pre.tape

C10_Witness ==
    /\ pc = "exited"
    /\ ret.status = "raised"
    /\ ret.error = "TypeError"
    /\ frame.annotate
    /\ frame.nativeOps > 0
    /\ Len(pre.tape) > 0

(***************************************************************************)
(* Properties of the compatibility table.                                  *)
(***************************************************************************)

BothOrNeither(value, homogenize) ==
    \/ value = "None" /\ homogenize = "None"
    \/ value # "None" /\ homogenize # "None"

\* C4: in both backends, create_bc called with value and homogenize both
\* None, or both not None, raises the argument error without having read an
\* attribute of bc or called the backend, and without constructing a
\* boundary condition.
C4_CreateBcRejectsBothOrNeither ==
    (compat.op = "create_bc" /\ BothOrNeither(compat.arg.value, compat.arg.homogenize)) =>
        /\ compat.res.status = "ValueError"
        /\ compat.res.log = <<>>
        /\ compat.res.heap = <<compat.arg.bc>>
        /\ compat.res.ret = 0

C4_Witness ==
    /\ compat.op = "create_bc"
    /\ backendName = "firedrake"
    /\ compat.arg.value = "0"
    /\ compat.arg.homogenize = "True"
    /\ compat.res.status = "ValueError"

\* C5: in both backends, every call of create_bc that returns yields a new
\* boundary condition, distinct from bc, on the function space and
\* sub-domain of bc, whose value is the given value when that is not None
\* and zero otherwise, for every accepted combination of arguments; and bc
\* itself is as it was.
C5_CreateBcClonesWithValueOrZero ==
    (compat.op = "create_bc" /\ compat.res.status = "ok") =>
        /\ compat.res.ret = 2
        /\ Len(compat.res.heap) = 2
        /\ compat.res.heap[1] = compat.arg.bc
        /\ compat.res.heap[2].V = compat.arg.bc.V
        /\ compat.res.heap[2].sub_domain = compat.arg.bc.sub_domain
        /\ compat.res.heap[2].value =
              IF compat.arg.value # "None" THEN compat.arg.value ELSE "0"

\* C6: in both backends, for the space V with component path i1..ik from the
\* root (any k >= 0, indices from 0 on), extract_subfunction(u, V) is
\* u.sub(i1)...sub(ik); for the root space it is u.
C6_ExtractSubfunctionFollowsPath ==
    compat.op = "extract_subfunction" => compat.res = compat.arg.V

\* C7: in both backends, gather of an input that is already a plain array
\* returns that input, so gathering the result again changes nothing.
C7_GatherKeepsPlainArray ==
    (compat.op = "gather" /\ compat.arg.vec.kind = "array") =>
        /\ compat.res = compat.arg.vec
        /\ Gather(compat.res, compat.arg.doubleArrayApi) = compat.res

\* C8: in both backends, gather of a list (nested or empty lists included)
\* returns the list, of the same length and order, of gather of each element.
C8_GatherMapsOverLists ==
    (compat.op = "gather" /\ compat.arg.vec.kind = "list") =>
        /\ compat.res.kind = "list"
        /\ Len(compat.res.items) = Len(compat.arg.vec.items)
        /\ \A i \in 1..Len(compat.arg.vec.items) :
              compat.res.items[i] = Gather(compat.arg.vec.items[i], compat.arg.doubleArrayApi)

\* C9: in both backends, assemble_adjoint_value of a 1-form is a Vector and
\* not a Function, and a result of the backend's assemble that is not a
\* Function is returned as it is.
C9_AssembleAdjointValueIsVector ==
    compat.op = "assemble_adjoint_value" =>
        /\ compat.arg.rank = 1 => compat.res.kind = "Vector"
        /\ compat.res.kind # "Function"
        /\ compat.native.kind # "Function" => compat.res = compat.native

C9_Witness ==
    /\ compat.op = "assemble_adjoint_value"
    /\ backendName = "firedrake"
    /\ compat.arg.rank = 1
    /\ compat.native.kind = "Function"
    /\ compat.res.kind = "Vector"

====
